---- MODULE Spec2Model ----
(***************************************************************************)
(* Model of the pipeline-history migration of engine/api (package          *)
(* bootstrap): MigratePipelineHistory and getPipelineBuild, run by         *)
(* NumRuns concurrent invocations over one legacy table                    *)
(* (pipeline_history_old) and one target table (pipeline_build).           *)
(*                                                                         *)
(* Every SQL statement is one atomic step; the Go code between two         *)
(* statements belongs to the step of the statement that precedes it.       *)
(***************************************************************************)
EXTENDS Integers, Sequences, FiniteSets, TLC

\* ------------------------------------------------------------------ bounds

\* LIMIT of the candidate query.
Limit == 10
\* Concurrent invocations of MigratePipelineHistory.
NumRuns == 2
\* Records of the first group when several runs race.
GroupSize == 2
\* Records of the first group beyond Limit when one run meets the window cap.
Extra == 1
\* Store failures (a statement, Scan, Begin or Commit returning an error) per behaviour.
MaxStoreFailures == 1
\* Legacy records whose payload is not the well-formed one.
MaxFaulty == 1
\* Rows of the target table that exist before any run.
MaxPre == 1
NumRequests == 2
MaxHandlerFailures == 1
MaxExisting == 2
MaxSubmitted == 3
MaxTemplateParams == 2

Runs == 1..NumRuns
NoRun == 0

\* ------------------------------------------------------- the legacy table

\* The legacy table of size n holds the rows 1..n of a first group, row n + 1
\* of the group that differs from it by a NULL branch, and row n + 2 of a group
\* of another application.
NullHid(n) == n + 1
OtherHid(n) == n + 2
SeedHids(n) == 1..(n + 2)

\* sql.NullString
NullString(valid, s) == [Valid |-> valid, String |-> s]

\* The grouping columns of the row of pipeline_build_id h.
SeedGroup(h, n) ==
    IF h <= n
      THEN [application_id |-> 1, pipeline_id |-> 1, environment_id |-> 1,
            vcs_changes_branch |-> NullString(TRUE, 1)]
      ELSE IF h = NullHid(n)
        THEN [application_id |-> 1, pipeline_id |-> 1, environment_id |-> 1,
              vcs_changes_branch |-> NullString(FALSE, 0)]
        ELSE [application_id |-> 2, pipeline_id |-> 1, environment_id |-> 1,
              vcs_changes_branch |-> NullString(TRUE, 1)]

\* The version column: pairwise distinct within a group, not monotone in the id.
SeedVersion(h) == (h * 7) % 13

\* The JSON snapshot of build h as the legacy system wrote it.  wellformed: the
\* text parses as JSON; id: the "id" member (0 when it is missing, the zero value
\* json.Unmarshal leaves); hasStages: the document has a "stages" key;
\* stagesNull: its value is null; stages: the stage entries, each with its
\* numeric id and its "builds" member (buildsOk: the member is an array);
\* skeleton: the ids of pb.Stages as the typed Unmarshal fills them.
\* A job entry of a stage entry; argsOk: its "args" member decodes into
\* []sdk.Parameter.
JobEntry(id, status) ==
    [id |-> id, status |-> status, action_name |-> "build", pipeline_action_id |-> id + 1,
     start |-> "t0", done |-> "t1", args |-> << [name |-> "X", value |-> "1"] >>,
     argsOk |-> TRUE]

StageEntry(id, builds) == [id |-> id, buildsOk |-> TRUE, builds |-> builds]

GoodData(h) ==
    [wellformed |-> TRUE, id |-> h, hasStages |-> TRUE, stagesNull |-> FALSE,
     stages |-> << StageEntry(1, << JobEntry(1, "Success") >>),
                   StageEntry(2, << JobEntry(2, "Fail"), JobEntry(3, "Success") >>),
                   StageEntry(3, << >>) >>,
     skeleton |-> <<1, 2, 3>>]

\* The payloads a faulty legacy record may hold: text that is not JSON, no
\* "id" member, no "stages" key, a null "stages", a stage entry whose id is
\* none of the skeleton's, a stage entry whose "builds" is null, a job entry
\* whose "args" is not a list of parameters.
FaultyData(h) ==
    { [GoodData(h) EXCEPT !.wellformed = FALSE],
      [GoodData(h) EXCEPT !.id = 0],
      [GoodData(h) EXCEPT !.hasStages = FALSE, !.stages = << >>, !.skeleton = << >>],
      [GoodData(h) EXCEPT !.stagesNull = TRUE, !.stages = << >>, !.skeleton = << >>],
      [GoodData(h) EXCEPT !.skeleton = <<1, 2>>],
      [GoodData(h) EXCEPT !.stages[3].buildsOk = FALSE],
      [GoodData(h) EXCEPT !.stages[2].builds[2].argsOk = FALSE] }

\* ------------------------------------------------------------ the queries

\* x = y as SQL evaluates it on a nullable column: never true of a NULL.
SqlEquals(x, y) == x.Valid /\ y.Valid /\ x.String = y.String

\* ORDER BY on a nullable column, ascending: NULL sorts last.
NullsLastLess(x, y) ==
    IF x.Valid /\ y.Valid THEN x.String < y.String ELSE x.Valid /\ ~y.Valid

GroupOf(row) ==
    [application_id |-> row.application_id, pipeline_id |-> row.pipeline_id,
     environment_id |-> row.environment_id,
     vcs_changes_branch |-> row.vcs_changes_branch]

\* ORDER by application_id, pipeline_id, environment_id, vcs_changes_branch
GroupLess(g1, g2) ==
    \/ g1.application_id < g2.application_id
    \/ /\ g1.application_id = g2.application_id
       /\ \/ g1.pipeline_id < g2.pipeline_id
          \/ /\ g1.pipeline_id = g2.pipeline_id
             /\ \/ g1.environment_id < g2.environment_id
                \/ /\ g1.environment_id = g2.environment_id
                   /\ NullsLastLess(g1.vcs_changes_branch, g2.vcs_changes_branch)

RECURSIVE OrderGroups(_)
OrderGroups(gs) ==
    IF gs = {} THEN << >>
    ELSE LET first == CHOOSE g \in gs : \A o \in gs \ {g} : GroupLess(g, o)
         IN  <<first>> \o OrderGroups(gs \ {first})

\* queryDistinct: SELECT distinct ... ORDER by ...
QueryDistinct(table) == OrderGroups({ GroupOf(table[h]) : h \in DOMAIN table })

\* The WHERE clause of querySelectByCriteria, with $4 the scanned branchName.
MatchesCriteria(row, g) ==
    /\ row.application_id = g.application_id
    /\ row.pipeline_id = g.pipeline_id
    /\ row.environment_id = g.environment_id
    /\ SqlEquals(row.vcs_changes_branch, g.vcs_changes_branch)

RECURSIVE OrderByVersionDesc(_, _)
OrderByVersionDesc(table, hs) ==
    IF hs = {} THEN << >>
    ELSE LET top == CHOOSE h \in hs : \A o \in hs \ {h} : table[h].version > table[o].version
         IN  <<top>> \o OrderByVersionDesc(table, hs \ {top})

FirstN(s, n) == SubSeq(s, 1, IF Len(s) < n THEN Len(s) ELSE n)

\* querySelectByCriteria: ... ORDER BY version DESC LIMIT 10
QuerySelectByCriteria(table, g) ==
    FirstN(OrderByVersionDesc(table, { h \in DOMAIN table : MatchesCriteria(table[h], g) }),
           Limit)

\* --------------------------------------------------------- initial stores

LegacyRow(h, n, data) ==
    [pipeline_build_id |-> h, version |-> SeedVersion(h), data |-> data]
        @@ SeedGroup(h, n)

SeedTable(n) == [h \in SeedHids(n) |-> LegacyRow(h, n, GoodData(h))]

\* The records whose payload or target row varies between initial states: the
\* first two candidates of the first group, its record of the lowest version
\* (the one the window cuts off), the record of the NULL-branch group and the
\* record of the third group.
Varied(n) ==
    LET byVersion == OrderByVersionDesc(SeedTable(n), 1..n)
    IN  {byVersion[1], byVersion[2], byVersion[Len(byVersion)], NullHid(n), OtherHid(n)}

\* The legacy tables the model starts from: at most MaxFaulty payloads are
\* faulty, and no two rows carry the same build id in their payload.
LegacyStores(n) ==
    LET Hids == SeedHids(n)
        faultSets == { F \in SUBSET Varied(n) : Cardinality(F) <= MaxFaulty }
        faultMaps == UNION { { m \in [F -> UNION { FaultyData(h) : h \in F }] :
                                 \A h \in F : m[h] \in FaultyData(h) } : F \in faultSets }
        Table(m)  == [h \in Hids |->
                        LegacyRow(h, n, IF h \in DOMAIN m THEN m[h] ELSE GoodData(h))]
    IN  { Table(m) : m \in { fm \in faultMaps :
            \A h1, h2 \in Hids : (h1 # h2) =>
                (Table(fm)[h1].data.id # Table(fm)[h2].data.id) } }

\* A row of pipeline_build.  hid and by are history: the legacy record the row
\* was built from and the run that inserted it (NoRun: present before any run).
BuildRow(id, stages, hid, by) == [id |-> id, stages |-> stages, hid |-> hid, by |-> by]

\* The target tables the model starts from: at most MaxPre rows, each of a
\* build of a varied record, already migrated by some earlier means.
TargetStores(n) ==
    { t \in UNION { [1..k -> { BuildRow(h, << >>, h, NoRun) : h \in Varied(n) }] : k \in 0..MaxPre } :
        \A i, j \in DOMAIN t : (i < j) => (t[i].id < t[j].id) }

\* ------------------------------------------------------- getPipelineBuild

NoBuild == [ID |-> -1, Stages |-> << >>]

\* json.Unmarshal([]byte(data), &pb): the typed skeleton.
Unmarshal(data) ==
    [ID |-> data.id,
     Stages |-> [i \in DOMAIN data.skeleton |->
                   [ID |-> data.skeleton[i], PipelineBuildJobs |-> << >>, Status |-> ""]]]

\* The existence check dropped: every candidate is rebuilt and inserted.
AlreadyExists_Never(nb) == FALSE

\* if nb != 0
AlreadyExists(nb) == nb # 0

\* SELECT count(1) FROM pipeline_build where id = $1
QueryCount(table, id) == Cardinality({ i \in DOMAIN table : table[i].id = id })

\* The index of stageToUpdate in pb.Stages for the entry of id sID (the loop keeps
\* the last match), 0 when stageToUpdate stays nil.
StageToUpdate(stages, sID) ==
    LET hits == { i \in DOMAIN stages : stages[i].ID = sID }
    IN  IF hits = {} THEN 0 ELSE CHOOSE i \in hits : \A j \in hits : j <= i

\* json.Marshal(bString["args"]) decoded into []sdk.Parameter: the typed
\* parameters, in the order of the legacy list.
ParseParameters(args) ==
    [i \in DOMAIN args |-> [Name |-> args[i].name, Value |-> args[i].value]]

\* The job built with Enabled left at its zero value.
PipelineBuildJob_Disabled(e) ==
    [ID |-> e.id, Parameters |-> ParseParameters(e.args), Status |-> e.status,
     ActionName |-> e.action_name, Enabled |-> FALSE,
     PipelineActionID |-> e.pipeline_action_id, Start |-> "now", Done |-> "now"]

\* pbJob := sdk.PipelineBuildJob{...}: start and done are time.Now(), the
\* results of start.Format(startTimeS) and done.Format(doneTimeS) are dropped.
PipelineBuildJob(e) ==
    [ID |-> e.id, Parameters |-> ParseParameters(e.args), Status |-> e.status,
     ActionName |-> e.action_name, Enabled |-> TRUE,
     PipelineActionID |-> e.pipeline_action_id, Start |-> "now", Done |-> "now"]

\* The loop over mapPB["stages"] from entry k on: the stages with the jobs of
\* every entry attached (kind "pb"); "nil" when an entry matches no stage;
\* "panic" when stageString["builds"].([]interface{}) fails; "err" when the
\* args of a job entry do not unmarshal into []sdk.Parameter.
RECURSIVE AttachJobs(_, _, _)
AttachJobs(stages, entries, k) ==
    IF k > Len(entries) THEN [kind |-> "pb", Stages |-> stages]
    ELSE LET i == StageToUpdate(stages, entries[k].id)
             builds == entries[k].builds
         IN  IF i = 0 THEN [kind |-> "nil", Stages |-> << >>]
             ELSE IF ~entries[k].buildsOk THEN [kind |-> "panic", Stages |-> << >>]
             ELSE IF \E j \in DOMAIN builds : ~builds[j].argsOk
               THEN [kind |-> "err", Stages |-> << >>]
               ELSE AttachJobs([stages EXCEPT ![i].PipelineBuildJobs =
                                   [j \in DOMAIN builds |-> PipelineBuildJob(builds[j])]],
                               entries, k + 1)

\* The status of the last job decides: the loop without its break, on the
\* job's own status.
FinalStatus_LastJob(jobs) ==
    IF jobs # << >> /\ jobs[Len(jobs)].Status = "Fail" THEN "Fail" ELSE "Success"

\* Calcul stage status
FinalStatus(jobs) ==
    IF \E j \in DOMAIN jobs : jobs[j].Status = "Fail" THEN "Fail" ELSE "Success"

\* The stages rebuilt by prepending each stage as it is met: newest first.
StageStatus_Reordered(stages) ==
    [i \in DOMAIN stages |->
        [stages[Len(stages) + 1 - i] EXCEPT
            !.Status = FinalStatus(stages[Len(stages) + 1 - i].PipelineBuildJobs)]]

StageStatus(stages) ==
    [i \in DOMAIN stages |-> [stages[i] EXCEPT !.Status = FinalStatus(stages[i].PipelineBuildJobs)]]

\* A payload without "stages" key rebuilt like one whose "stages" is null.
Rebuild_EmptyWhenAbsent(data, pb) ==
    IF ~data.hasStages \/ data.stagesNull
      THEN [kind |-> "pb", why |-> "", at |-> 0, pb |-> [pb EXCEPT !.Stages = << >>]]
      ELSE LET att == AttachJobs(pb.Stages, data.stages, 1)
           IN  IF att.kind = "pb"
                 THEN [kind |-> "pb", why |-> "", at |-> 0,
                       pb |-> [pb EXCEPT !.Stages = StageStatus(att.Stages)]]
                 ELSE [kind |-> att.kind, why |-> "stageNotFound", at |-> 950, pb |-> NoBuild]

\* A null "stages" handled like a missing key.
Rebuild_NilWhenNull(data, pb) ==
    IF ~data.hasStages \/ data.stagesNull
      THEN [kind |-> "nil", why |-> "noStages", at |-> 927, pb |-> NoBuild]
      ELSE LET att == AttachJobs(pb.Stages, data.stages, 1)
           IN  IF att.kind = "pb"
                 THEN [kind |-> "pb", why |-> "", at |-> 0,
                       pb |-> [pb EXCEPT !.Stages = StageStatus(att.Stages)]]
                 ELSE [kind |-> att.kind, why |-> "stageNotFound", at |-> 950, pb |-> NoBuild]

\* getPipelineBuild from "Start rebuilding stages struct" on: kind "pb" with the
\* rebuilt build; kind "nil" (a nil build and a nil error), kind "err" (a nil
\* build and an error) or kind "panic" (a failed type assertion), with the
\* reason and the line of the critical log entry (0: nothing is logged).
Rebuild(data, pb) ==
    IF ~data.hasStages
      THEN [kind |-> "nil", why |-> "noStages", at |-> 927, pb |-> NoBuild]
    ELSE IF data.stagesNull
      THEN [kind |-> "pb", why |-> "", at |-> 0, pb |-> [pb EXCEPT !.Stages = << >>]]
      ELSE LET att == AttachJobs(pb.Stages, data.stages, 1)
           IN  CASE att.kind = "nil" ->
                      [kind |-> "nil", why |-> "stageNotFound", at |-> 950, pb |-> NoBuild]
                 [] att.kind = "panic" ->
                      [kind |-> "panic", why |-> "rebuildPanic", at |-> 0, pb |-> NoBuild]
                 [] att.kind = "err" ->
                      [kind |-> "err", why |-> "paramErr", at |-> 972, pb |-> NoBuild]
                 [] OTHER ->
                      [kind |-> "pb", why |-> "", at |-> 0,
                       pb |-> [pb EXCEPT !.Stages = StageStatus(att.Stages)]]

\* -------------------------------------------------------------- the state

VARIABLES
    pipeline_history_old,  \* the legacy table: pipeline_build_id -> row
    pipeline_build,        \* the target table: the sequence of its rows
    lock,                  \* row lock of a legacy row: the run whose transaction holds it
    failures,              \* store failures so far
    pc,                    \* each run's position in MigratePipelineHistory
    ret,                   \* each run's return value
    groups, gi,            \* rows of queryDistinct and the number consumed
    cands, ci,             \* rowsSelectCriteria and the number consumed
    cur,                   \* pbHistoryID
    build,                 \* pb
    txOpen,                \* tx begun and neither committed nor rolled back
    logs,                  \* the log entries each run wrote
    outcome,               \* history: how each run's attempt at a record ended
    calls,                 \* history: the steps each run took on a record
    idsAtStart,            \* history: the build ids of the target table when the run began
    alone                  \* history: every other run had ended when the run began

vars == << pipeline_history_old, pipeline_build, lock, failures, pc, ret, groups, gi,
           cands, ci, cur, build, txOpen, logs, outcome, calls, idsAtStart, alone >>

\* The HTTP handlers that write in a transaction: the requests in flight and
\* the effects of their statements.
VARIABLES
    hkind,                 \* the handler each request is served by
    hpc,                   \* where each request is in its handler
    hstep,                 \* the next statement of the handler's transaction part
    applied,               \* the effects the database holds: <<request, statement>>
    pending,               \* the effects written in a transaction still open
    resp,                  \* the HTTP responses written for each request, in order
    failedAt,              \* history: the statement whose error the request answered
    hfailures,             \* the store failures the handlers met so far
    hfound,                \* paramInPipeline, paramInProject of each request
    pipeline_parameter     \* the requests whose row of the parameter the pipeline holds

hvars == << hkind, hpc, hstep, applied, pending, resp, failedAt, hfailures, hfound,
           pipeline_parameter >>

Requests == 1..NumRequests

\* One call of updateParametersInPipelineHandler and one call of
\* templateextension.Apply: their inputs and what they gave.
VARIABLES
    pipParameter,          \* pip.Parameter: the parameters the pipeline holds
    pipParams,             \* the parameters of the request body
    deleted,               \* the three lists the handler classifies into
    updated,
    added,
    issued,                \* the statements the handler ran on its transaction
    response,              \* the HTTP response of the handler
    applyFailed,           \* templ.Apply returned an error
    appNameValid,          \* appName matches sdk.NamePattern
    params,                \* the template parameters given to Apply
    applyResult,           \* what Apply returned
    called                 \* which of the two calls was made

fvars == << pipParameter, pipParams, deleted, updated, added, issued, response,
            applyFailed, appNameValid, params, applyResult, called >>

NoResponse == [kind |-> "none", body |-> << >>]
NoResult == [app |-> "none", err |-> "none"]

\* Neither call is made.
NoCall ==
    /\ pipParameter = << >>
    /\ pipParams = << >>
    /\ deleted = << >>
    /\ updated = << >>
    /\ added = << >>
    /\ issued = << >>
    /\ response = NoResponse
    /\ applyFailed = FALSE
    /\ appNameValid = FALSE
    /\ params = << >>
    /\ applyResult = NoResult
    /\ called = "off"

\* A run that is never invoked is "off".
Ended == {"returned", "panic", "crashed", "off"}

Hids == DOMAIN pipeline_history_old

\* No request is served.
NoRequest ==
    /\ hkind = [q \in Requests |-> "none"]
    /\ hpc = [q \in Requests |-> "off"]
    /\ hstep = [q \in Requests |-> 0]
    /\ applied = {}
    /\ pending = {}
    /\ resp = [q \in Requests |-> << >>]
    /\ failedAt = [q \in Requests |-> "none"]
    /\ hfailures = 0
    /\ hfound = [q \in Requests |-> FALSE]
    /\ pipeline_parameter = {}

\* Either every run is invoked over a small legacy table, or one run is
\* invoked over a table whose first group exceeds the window.
Init ==
    /\ \/ /\ pipeline_history_old \in LegacyStores(GroupSize)
          /\ pipeline_build \in TargetStores(GroupSize)
          /\ pc = [r \in Runs |-> "idle"]
       \/ /\ pipeline_history_old \in LegacyStores(Limit + Extra)
          /\ pipeline_build \in TargetStores(Limit + Extra)
          /\ pc = [r \in Runs |-> IF r = 1 THEN "idle" ELSE "off"]
    /\ lock = [h \in Hids |-> NoRun]
    /\ failures = 0
    /\ ret = [r \in Runs |-> "none"]
    /\ groups = [r \in Runs |-> << >>]
    /\ gi = [r \in Runs |-> 0]
    /\ cands = [r \in Runs |-> << >>]
    /\ ci = [r \in Runs |-> 0]
    /\ cur = [r \in Runs |-> 0]
    /\ build = [r \in Runs |-> NoBuild]
    /\ txOpen = [r \in Runs |-> FALSE]
    /\ logs = [r \in Runs |-> {}]
    /\ outcome = [r \in Runs |-> [h \in Hids |-> "none"]]
    /\ calls = [r \in Runs |-> {}]
    /\ idsAtStart = [r \in Runs |-> {}]
    /\ alone = [r \in Runs |-> FALSE]
    /\ NoRequest
    /\ NoCall

\* ----------------------------------------------------------------- helpers

\* Whether the next store operation may return an error.
MayFail == IF failures < MaxStoreFailures THEN {FALSE, TRUE} ELSE {FALSE}

Critical(at, id) == [sev |-> "critical", at |-> at, id |-> id]
Notice(at, id) == [sev |-> "notice", at |-> at, id |-> id]

\* The SELECT without FOR UPDATE: it never meets a lock.
LockFree_Always(lk, h, r) == TRUE

\* FOR UPDATE NOWAIT succeeds when no other transaction holds the row lock.
LockFree(lk, h, r) == lk[h] = NoRun \/ lk[h] = r

\* The statement as UPDATE pipeline_history_old SET data = '' ... RETURNING.
ForUpdateNowait_Consumes(table, h) ==
    [table EXCEPT ![h].data.wellformed = FALSE]

\* The rows of pipeline_history_old once SELECT data ... FOR UPDATE NOWAIT ran:
\* the statement locks the row and writes nothing.
ForUpdateNowait(table, h) == table

\* The end of a transaction (Commit or Rollback) releases its row locks.
Release(lk, r) == [h \in DOMAIN lk |-> IF lk[h] = r THEN NoRun ELSE lk[h]]

\* The statement as an upsert that overwrites the newest row of the table.
InsertRow_Overwrite(table, row) ==
    IF table = << >> THEN <<row>> ELSE [table EXCEPT ![Len(table)] = row]

\* INSERT INTO pipeline_build ... VALUES ...
InsertRow(table, row) == Append(table, row)

\* ----------------------------------------------------------------- actions

\* getPipelineBuild returned a nil pb and the arguments of db.Exec read pb.ID,
\* or a type assertion of getPipelineBuild failed: the run panics.  Its
\* transaction is neither committed nor rolled back.
NilBuildPanic(r, why, entries) ==
    /\ pc' = [pc EXCEPT ![r] = "panic"]
    /\ outcome' = [outcome EXCEPT ![r][cur[r]] = why]
    /\ logs' = [logs EXCEPT ![r] = @ \cup entries]
    /\ build' = [build EXCEPT ![r] = NoBuild]
    /\ UNCHANGED << pipeline_history_old, pipeline_build, ret, groups, gi, cands, ci,
                    cur, txOpen, idsAtStart, alone >>

\* The loop goes to its next row without tx.Rollback() or tx.Commit().
EndTransaction_NoRollback(r, why, entries) ==
    /\ pc' = [pc EXCEPT ![r] = "rowsLoop"]
    /\ outcome' = [outcome EXCEPT ![r][cur[r]] = why]
    /\ logs' = [logs EXCEPT ![r] = @ \cup entries]
    /\ build' = [build EXCEPT ![r] = NoBuild]
    /\ UNCHANGED << pipeline_history_old, lock, txOpen, ret, groups, gi, cands, ci, cur,
                    idsAtStart, alone >>

\* The candidate's transaction ends, by tx.Rollback() after a failed insert or
\* commit or by a successful tx.Commit(), and the loop goes to its next row.
EndTransaction(r, why, entries) ==
    /\ pc' = [pc EXCEPT ![r] = "rowsLoop"]
    /\ outcome' = [outcome EXCEPT ![r][cur[r]] = why]
    /\ logs' = [logs EXCEPT ![r] = @ \cup entries]
    /\ lock' = Release(lock, r)
    /\ txOpen' = [txOpen EXCEPT ![r] = FALSE]
    /\ build' = [build EXCEPT ![r] = NoBuild]
    /\ UNCHANGED << pipeline_history_old, ret, groups, gi, cands, ci, cur,
                    idsAtStart, alone >>

\* errDistinct logged and not returned: the loop runs over no group.
Start_SwallowsError(r) ==
    /\ pc[r] = "idle"
    /\ UNCHANGED << hvars, fvars >>
    /\ \A p \in Runs : (p < r) => (pc[p] # "idle")
    /\ idsAtStart' = [idsAtStart EXCEPT ![r] = { pipeline_build[i].id : i \in DOMAIN pipeline_build }]
    /\ alone' = [alone EXCEPT ![r] = \A p \in Runs \ {r} : pc[p] \in Ended]
    /\ \E fail \in MayFail :
         IF fail
           THEN /\ failures' = failures + 1
                /\ logs' = [logs EXCEPT ![r] = @ \cup {Critical(813, 0)}]
                /\ pc' = [pc EXCEPT ![r] = "rows"]
                /\ UNCHANGED << groups, ret >>
           ELSE /\ groups' = [groups EXCEPT ![r] = QueryDistinct(pipeline_history_old)]
                /\ pc' = [pc EXCEPT ![r] = "rows"]
                /\ UNCHANGED << failures, logs, ret >>
    /\ UNCHANGED << pipeline_history_old, pipeline_build, lock, gi, cands, ci, cur,
                    build, txOpen, outcome, calls >>

\* MigratePipelineHistory is called: queryDistinct.  The runs are numbered in the order in which they begin.
Start(r) ==
    /\ pc[r] = "idle"
    /\ UNCHANGED << hvars, fvars >>
    /\ \A p \in Runs : (p < r) => (pc[p] # "idle")
    /\ idsAtStart' = [idsAtStart EXCEPT ![r] = { pipeline_build[i].id : i \in DOMAIN pipeline_build }]
    /\ alone' = [alone EXCEPT ![r] = \A p \in Runs \ {r} : pc[p] \in Ended]
    /\ \E fail \in MayFail :
         IF fail
           THEN /\ failures' = failures + 1
                /\ logs' = [logs EXCEPT ![r] = @ \cup {Critical(813, 0)}]
                /\ ret' = [ret EXCEPT ![r] = "errDistinct"]
                /\ pc' = [pc EXCEPT ![r] = "returned"]
                /\ UNCHANGED groups
           ELSE /\ groups' = [groups EXCEPT ![r] = QueryDistinct(pipeline_history_old)]
                /\ pc' = [pc EXCEPT ![r] = "rows"]
                /\ UNCHANGED << failures, logs, ret >>
    /\ UNCHANGED << pipeline_history_old, pipeline_build, lock, gi, cands, ci, cur,
                    build, txOpen, outcome, calls >>

\* errCriteria returned instead of continue.
NextGroup_ReturnsOnError(r) ==
    /\ pc[r] = "rows"
    /\ UNCHANGED << hvars, fvars >>
    /\ IF gi[r] = Len(groups[r])
         THEN /\ pc' = [pc EXCEPT ![r] = "returned"]
              /\ ret' = [ret EXCEPT ![r] = "nil"]
              /\ UNCHANGED << gi, cands, ci, logs, failures >>
         ELSE /\ gi' = [gi EXCEPT ![r] = @ + 1]
              /\ \E res \in {"ok"} \cup (IF TRUE \in MayFail THEN {"scan", "query"} ELSE {}) :
                   IF res = "ok"
                     THEN /\ cands' = [cands EXCEPT ![r] =
                                QuerySelectByCriteria(pipeline_history_old, groups[r][gi[r] + 1])]
                          /\ ci' = [ci EXCEPT ![r] = 0]
                          /\ pc' = [pc EXCEPT ![r] = "rowsLoop"]
                          /\ UNCHANGED << logs, failures, ret >>
                     ELSE /\ failures' = failures + 1
                          /\ logs' = [logs EXCEPT ![r] =
                                @ \cup {Critical(IF res = "scan" THEN 821 ELSE 835, 0)}]
                          /\ pc' = [pc EXCEPT ![r] = IF res = "scan" THEN "rows" ELSE "returned"]
                          /\ ret' = [ret EXCEPT ![r] =
                                IF res = "scan" THEN "none" ELSE "errCriteria"]
                          /\ UNCHANGED << cands, ci >>
    /\ UNCHANGED << pipeline_history_old, pipeline_build, lock, groups, cur, build,
                    txOpen, outcome, calls, idsAtStart, alone >>

\* rows.Next(): Scan the group and run querySelectByCriteria, or return nil.
NextGroup(r) ==
    /\ pc[r] = "rows"
    /\ UNCHANGED << hvars, fvars >>
    /\ IF gi[r] = Len(groups[r])
         THEN /\ pc' = [pc EXCEPT ![r] = "returned"]
              /\ ret' = [ret EXCEPT ![r] = "nil"]
              /\ UNCHANGED << gi, cands, ci, logs, failures >>
         ELSE /\ gi' = [gi EXCEPT ![r] = @ + 1]
              /\ UNCHANGED ret
              /\ \E res \in {"ok"} \cup (IF TRUE \in MayFail THEN {"scan", "query"} ELSE {}) :
                   IF res = "ok"
                     THEN /\ cands' = [cands EXCEPT ![r] =
                                QuerySelectByCriteria(pipeline_history_old, groups[r][gi[r] + 1])]
                          /\ ci' = [ci EXCEPT ![r] = 0]
                          /\ pc' = [pc EXCEPT ![r] = "rowsLoop"]
                          /\ UNCHANGED << logs, failures >>
                     ELSE /\ failures' = failures + 1
                          /\ logs' = [logs EXCEPT ![r] =
                                @ \cup {Critical(IF res = "scan" THEN 821 ELSE 835, 0)}]
                          /\ UNCHANGED << cands, ci, pc >>
    /\ UNCHANGED << pipeline_history_old, pipeline_build, lock, groups, cur, build,
                    txOpen, outcome, calls, idsAtStart, alone >>

\* rowsSelectCriteria.Next(): Scan the id and begin its transaction, or Close.
NextCandidate(r) ==
    /\ pc[r] = "rowsLoop"
    /\ UNCHANGED << hvars, fvars >>
    /\ IF ci[r] = Len(cands[r])
         THEN /\ pc' = [pc EXCEPT ![r] = "rows"]
              /\ UNCHANGED << ci, cur, txOpen, logs, outcome, failures >>
         ELSE /\ ci' = [ci EXCEPT ![r] = @ + 1]
              /\ \E res \in {"ok"} \cup (IF TRUE \in MayFail THEN {"scan", "begin"} ELSE {}) :
                   LET h == cands[r][ci[r] + 1]
                   IN  IF res = "scan"
                         THEN /\ failures' = failures + 1
                              /\ logs' = [logs EXCEPT ![r] = @ \cup {Critical(843, 0)}]
                              /\ UNCHANGED << cur, txOpen, outcome, pc >>
                         ELSE IF res = "begin"
                           THEN /\ failures' = failures + 1
                                /\ logs' = [logs EXCEPT ![r] =
                                      @ \cup {Notice(847, h), Critical(852, h)}]
                                /\ cur' = [cur EXCEPT ![r] = h]
                                /\ outcome' = [outcome EXCEPT ![r][h] = "beginErr"]
                                /\ UNCHANGED << txOpen, pc >>
                           ELSE /\ logs' = [logs EXCEPT ![r] = @ \cup {Notice(847, h)}]
                                /\ cur' = [cur EXCEPT ![r] = h]
                                /\ txOpen' = [txOpen EXCEPT ![r] = TRUE]
                                /\ pc' = [pc EXCEPT ![r] = "getPB"]
                                /\ UNCHANGED << outcome, failures >>
    /\ UNCHANGED << pipeline_history_old, pipeline_build, lock, ret, groups, gi, cands,
                    build, calls, idsAtStart, alone >>

\* getPipelineBuild: SELECT data ... FOR UPDATE NOWAIT, then the typed Unmarshal.
SelectForUpdate(r) ==
    /\ pc[r] = "getPB"
    /\ UNCHANGED << hvars, fvars >>
    /\ LET h == cur[r]
           data == pipeline_history_old[h].data
       IN  IF ~LockFree(lock, h, r)
             THEN /\ NilBuildPanic(r, "contended", {Critical(896, h)})
                  /\ UNCHANGED << lock, failures, calls >>
             ELSE \E fail \in MayFail :
                    IF fail
                      THEN /\ failures' = failures + 1
                           /\ NilBuildPanic(r, "selectErr", {Critical(896, h)})
                           /\ UNCHANGED << lock, calls >>
                      ELSE /\ lock' = [lock EXCEPT ![h] = r]
                           /\ calls' = [calls EXCEPT ![r] = @ \cup {<<"Decode", h>>}]
                           /\ UNCHANGED failures
                           /\ IF ~data.wellformed
                                THEN NilBuildPanic(r, "decodeErr", {Critical(903, h)})
                                ELSE /\ build' = [build EXCEPT ![r] = Unmarshal(data)]
                                     /\ pc' = [pc EXCEPT ![r] = "count"]
                                     /\ pipeline_history_old' =
                                           ForUpdateNowait(pipeline_history_old, h)
                                     /\ UNCHANGED << pipeline_build,
                                                     ret, groups, gi, cands, ci, cur, txOpen,
                                                     logs, outcome, idsAtStart, alone >>

\* getPipelineBuild: the count query, then the rebuilding of the stages.
CountBuild(r) ==
    /\ pc[r] = "count"
    /\ UNCHANGED << hvars, fvars >>
    /\ UNCHANGED lock
    /\ LET h == cur[r]
           data == pipeline_history_old[h].data
       IN  \E fail \in MayFail :
             IF fail
               THEN /\ failures' = failures + 1
                    /\ calls' = [calls EXCEPT ![r] = @ \cup {<<"Exists", h>>}]
                    /\ NilBuildPanic(r, "countErr", {Critical(911, h)})
               ELSE /\ UNCHANGED failures
                    /\ IF AlreadyExists(QueryCount(pipeline_build, build[r].ID))
                         THEN /\ calls' = [calls EXCEPT ![r] = @ \cup {<<"Exists", h>>}]
                              /\ NilBuildPanic(r, "exists", {})
                         ELSE LET res == Rebuild(data, build[r])
                              IN  /\ calls' = [calls EXCEPT ![r] =
                                        @ \cup {<<"Exists", h>>, <<"Reconstruct", h>>}]
                                  /\ IF res.kind # "pb"
                                       THEN NilBuildPanic(r, res.why,
                                              IF res.at = 0 THEN {}
                                              ELSE {Critical(res.at, h)})
                                       ELSE /\ build' = [build EXCEPT ![r] = res.pb]
                                            /\ pc' = [pc EXCEPT ![r] = "insert"]
                                            /\ UNCHANGED << pipeline_history_old,
                                                 pipeline_build, ret, groups, gi, cands, ci,
                                                 cur, txOpen, logs, outcome, idsAtStart, alone >>

\* db.Exec(queryInsert, pb.ID, ...): the statement runs on db, not on tx.
ExecInsert(r) ==
    /\ pc[r] = "insert"
    /\ UNCHANGED << hvars, fvars >>
    /\ calls' = [calls EXCEPT ![r] = @ \cup {<<"Write", cur[r]>>}]
    /\ \E fail \in MayFail :
         IF fail
           THEN /\ failures' = failures + 1
                /\ EndTransaction(r, "insertErr", {Critical(871, cur[r])})
                /\ UNCHANGED pipeline_build
           ELSE /\ pipeline_build' = InsertRow(pipeline_build,
                      BuildRow(build[r].ID, build[r].Stages, cur[r], r))
                /\ pc' = [pc EXCEPT ![r] = "commit"]
                /\ UNCHANGED << pipeline_history_old, lock, failures, ret, groups, gi,
                                cands, ci, cur, build, txOpen, logs, outcome,
                                idsAtStart, alone >>

\* tx.Commit()
Commit(r) ==
    /\ pc[r] = "commit"
    /\ UNCHANGED << hvars, fvars >>
    /\ UNCHANGED << pipeline_build, calls >>
    /\ \E fail \in MayFail :
         IF fail
           THEN /\ failures' = failures + 1
                /\ EndTransaction(r, "commitErr", {Critical(877, cur[r])})
           ELSE /\ UNCHANGED failures
                /\ EndTransaction(r, "migrated", {Notice(882, cur[r])})

\* The panic is not recovered: the process ends and the server ends its
\* transaction.
Crash(r) ==
    /\ pc[r] = "panic"
    /\ UNCHANGED << hvars, fvars >>
    /\ pc' = [pc EXCEPT ![r] = "crashed"]
    /\ lock' = Release(lock, r)
    /\ txOpen' = [txOpen EXCEPT ![r] = FALSE]
    /\ UNCHANGED << pipeline_history_old, pipeline_build, failures, ret, groups, gi,
                    cands, ci, cur, build, logs, outcome, calls, idsAtStart, alone >>

Next ==
    \E r \in Runs :
        \/ Start(r)
        \/ NextGroup(r)
        \/ NextCandidate(r)
        \/ SelectForUpdate(r)
        \/ CountBuild(r)
        \/ ExecInsert(r)
        \/ Commit(r)
        \/ Crash(r)

Spec == Init /\ [][Next]_<< vars, hvars, fvars >>

\* ---------------------------------------------------------------- handlers

\* The statements each handler runs between db.Begin() and tx.Commit(), with
\* the executor each is given: the transaction tx or the connection pool db.
HandlerSteps(kind) ==
    CASE kind = "addPoller" ->
           << [op |-> "InsertPoller", via |-> "db"],
              [op |-> "UpdateLastModified", via |-> "tx"] >>
      [] kind = "deleteVariable" ->
           << [op |-> "CreateAudit", via |-> "tx"],
              [op |-> "DeleteVariable", via |-> "db"],
              [op |-> "UpdateProjectDB", via |-> "db"] >>
      [] kind = "updateVariable" ->
           << [op |-> "CreateAudit", via |-> "tx"],
              [op |-> "UpdateVariable", via |-> "db"],
              [op |-> "UpdateProjectDB", via |-> "db"] >>
      [] kind = "addParameter" ->
           << [op |-> "InsertParameterInPipeline", via |-> "tx"],
              [op |-> "UpdatePipelineLastModified", via |-> "tx"] >>
      [] kind = "updateParameter" ->
           << [op |-> "UpdateParameterInPipeline", via |-> "tx"],
              [op |-> "UpdatePipelineLastModified", via |-> "tx"] >>
      [] kind = "deleteParameter" ->
           << [op |-> "DeleteParameterFromPipeline", via |-> "tx"],
              [op |-> "UpdatePipelineLastModified", via |-> "tx"] >>

HandlerKinds ==
    {"addPoller", "deleteVariable", "updateVariable",
     "addParameter", "updateParameter", "deleteParameter"}

\* The handlers that call pipeline.CheckParameterInPipeline(db, ...) before
\* db.Begin().
ChecksParameter(kind) == kind \in {"addParameter", "updateParameter"}

\* if paramInPipeline { UpdateParameterInPipeline }: the statements request q
\* runs, given what its check found.
StepsOf(q) ==
    SelectSeq(HandlerSteps(hkind[q]),
              LAMBDA step : (step.op = "UpdateParameterInPipeline") => hfound[q])

\* Whether the handler reads the store again after its commit
\* (LoadEnvironments, CheckProjectPipelines, GetAllParametersInPipeline)
\* before it answers.
LoadsAfterCommit(kind) == kind # "addPoller"

\* Whether the handler returns after the WriteError of its failed reload.
ReturnsAfterLoadError(kind) == kind # "deleteParameter"

\* Whether the next statement of a handler may return an error.
HandlerMayFail == IF hfailures < MaxHandlerFailures THEN {FALSE, TRUE} ELSE {FALSE}

\* The executor a statement runs on.
Executor(step) == step.via

\* The rows of the parameter once the transaction of request q is committed:
\* its insert adds a row, its delete removes the rows of that name.
CommittedParameters(q) ==
    IF <<q, "InsertParameterInPipeline">> \in pending
      THEN pipeline_parameter \cup {q}
      ELSE IF <<q, "DeleteParameterFromPipeline">> \in pending
             THEN {}
             ELSE pipeline_parameter

\* WriteError and return: the deferred tx.Rollback() drops what the
\* transaction wrote.
AnswerError(q, at) ==
    /\ resp' = [resp EXCEPT ![q] = Append(@, "error")]
    /\ failedAt' = [failedAt EXCEPT ![q] = at]
    /\ hpc' = [hpc EXCEPT ![q] = "done"]
    /\ pending' = { e \in pending : e[1] # q }
    /\ hfailures' = hfailures + 1

\* A request arrives and its handler reaches db.Begin(); the handlers that
\* check the parameter do it before, on db, and addParameterInPipelineHandler
\* answers ErrParameterExists when the pipeline holds it.
HandlerBegin(q) ==
    /\ hpc[q] = "idle"
    /\ UNCHANGED << vars, fvars >>
    /\ UNCHANGED pipeline_parameter
    /\ \E kind \in HandlerKinds :
         /\ hkind' = [hkind EXCEPT ![q] = kind]
         /\ hfound' = [hfound EXCEPT ![q] = ChecksParameter(kind) /\ pipeline_parameter # {}]
         /\ IF kind = "addParameter" /\ pipeline_parameter # {}
              THEN /\ resp' = [resp EXCEPT ![q] = Append(@, "error")]
                   /\ failedAt' = [failedAt EXCEPT ![q] = "ErrParameterExists"]
                   /\ hpc' = [hpc EXCEPT ![q] = "done"]
                   /\ UNCHANGED << hstep, applied, pending, hfailures >>
              ELSE \E fail \in HandlerMayFail :
                     IF fail
                       THEN /\ AnswerError(q, "Begin")
                            /\ UNCHANGED << hstep, applied >>
                       ELSE /\ hpc' = [hpc EXCEPT ![q] = "tx"]
                            /\ hstep' = [hstep EXCEPT ![q] = 1]
                            /\ UNCHANGED << applied, pending, resp, failedAt, hfailures >>

\* The next statement of the handler: on db it is committed at once, on tx it
\* waits for the commit.
HandlerStatement(q) ==
    /\ hpc[q] = "tx"
    /\ UNCHANGED << vars, fvars >>
    /\ hstep[q] <= Len(StepsOf(q))
    /\ UNCHANGED << hkind, hfound, pipeline_parameter >>
    /\ LET step == StepsOf(q)[hstep[q]]
       IN  \E fail \in HandlerMayFail :
             IF fail
               THEN /\ AnswerError(q, step.op)
                    /\ UNCHANGED << hstep, applied >>
               ELSE /\ hstep' = [hstep EXCEPT ![q] = @ + 1]
                    /\ IF Executor(step) = "db"
                         THEN /\ applied' = applied \cup {<<q, step.op>>}
                              /\ UNCHANGED pending
                         ELSE /\ pending' = pending \cup {<<q, step.op>>}
                              /\ UNCHANGED applied
                    /\ UNCHANGED << hpc, resp, failedAt, hfailures >>

\* tx.Commit()
HandlerCommit(q) ==
    /\ hpc[q] = "tx"
    /\ UNCHANGED << vars, fvars >>
    /\ hstep[q] > Len(StepsOf(q))
    /\ UNCHANGED << hkind, hstep, hfound >>
    /\ \E fail \in HandlerMayFail :
         IF fail
           THEN /\ AnswerError(q, "Commit")
                /\ UNCHANGED << applied, pipeline_parameter >>
           ELSE /\ applied' = applied \cup { e \in pending : e[1] = q }
                /\ pipeline_parameter' = CommittedParameters(q)
                /\ pending' = { e \in pending : e[1] # q }
                /\ hpc' = [hpc EXCEPT ![q] = "committed"]
                /\ UNCHANGED << resp, failedAt, hfailures >>

\* After the commit: the reload of the handler, if it has one, and WriteJSON;
\* deleteParameterFromPipelineHandler writes both when its reload fails.
HandlerAnswer(q) ==
    /\ hpc[q] = "committed"
    /\ UNCHANGED << vars, fvars >>
    /\ UNCHANGED << hkind, hstep, applied, hfound, pipeline_parameter >>
    /\ \E fail \in (IF LoadsAfterCommit(hkind[q]) THEN HandlerMayFail ELSE {FALSE}) :
         IF fail
           THEN IF ReturnsAfterLoadError(hkind[q])
                  THEN AnswerError(q, "Load")
                  ELSE /\ resp' = [resp EXCEPT ![q] = Append(Append(@, "error"), "ok")]
                       /\ failedAt' = [failedAt EXCEPT ![q] = "Load"]
                       /\ hpc' = [hpc EXCEPT ![q] = "done"]
                       /\ hfailures' = hfailures + 1
                       /\ UNCHANGED pending
           ELSE /\ resp' = [resp EXCEPT ![q] = Append(@, "ok")]
                /\ hpc' = [hpc EXCEPT ![q] = "done"]
                /\ UNCHANGED << pending, failedAt, hfailures >>

\* No migration runs: the tables are empty and every run is off.
NoMigration ==
    /\ pipeline_history_old = << >>
    /\ pipeline_build = << >>
    /\ lock = << >>
    /\ failures = 0
    /\ pc = [r \in Runs |-> "off"]
    /\ ret = [r \in Runs |-> "none"]
    /\ groups = [r \in Runs |-> << >>]
    /\ gi = [r \in Runs |-> 0]
    /\ cands = [r \in Runs |-> << >>]
    /\ ci = [r \in Runs |-> 0]
    /\ cur = [r \in Runs |-> 0]
    /\ build = [r \in Runs |-> NoBuild]
    /\ txOpen = [r \in Runs |-> FALSE]
    /\ logs = [r \in Runs |-> {}]
    /\ outcome = [r \in Runs |-> << >>]
    /\ calls = [r \in Runs |-> {}]
    /\ idsAtStart = [r \in Runs |-> {}]
    /\ alone = [r \in Runs |-> FALSE]

\* The handlers serve their requests and no migration runs.
HandlerInit ==
    /\ NoMigration
    /\ NoCall
    /\ hkind = [q \in Requests |-> "none"]
    /\ hpc = [q \in Requests |-> "idle"]
    /\ hstep = [q \in Requests |-> 0]
    /\ applied = {}
    /\ pending = {}
    /\ resp = [q \in Requests |-> << >>]
    /\ failedAt = [q \in Requests |-> "none"]
    /\ hfailures = 0
    /\ hfound = [q \in Requests |-> FALSE]
    /\ pipeline_parameter = {}

HandlerNext ==
    \E q \in Requests :
        \/ HandlerBegin(q)
        \/ HandlerStatement(q)
        \/ HandlerCommit(q)
        \/ HandlerAnswer(q)

HandlerSpec == HandlerInit /\ [][HandlerNext]_<< vars, hvars, fvars >>

\* ------------------------------------------ updateParametersInPipelineHandler

\* A parameter of a pipeline.
Parameter(id, name, value) == [ID |-> id, Name |-> name, Value |-> value]

\* The parameters a pipeline may hold: k parameters of ids 1..k.
ExistingParameters ==
    { [i \in 1..k |-> Parameter(i, i, "old")] : k \in 0..MaxExisting }

\* The parameter lists a request body may carry: any ids, 0 for a parameter
\* the client holds no id of, with repeats.
SubmittedParameters ==
    UNION { [1..k -> { Parameter(i, n, "new") : i \in 0..MaxExisting,
                                                n \in 1..(MaxExisting + 1) }] :
            k \in 0..MaxSubmitted }

\* for _, new := range pipParams { if p.ID == new.ID { ...; break } }: the
\* place of the first submitted parameter of that id, 0 when there is none.
FirstWithID(list, id) ==
    LET hits == { i \in DOMAIN list : list[i].ID = id }
    IN  IF hits = {} THEN 0 ELSE CHOOSE i \in hits : \A j \in hits : i <= j

\* The loop over pip.Parameter from place k on: updated gets the submitted
\* parameter found for each existing one.
RECURSIVE ClassifyUpdated(_, _, _)
ClassifyUpdated(existing, submitted, k) ==
    IF k > Len(existing) THEN << >>
    ELSE LET i == FirstWithID(submitted, existing[k].ID)
         IN  (IF i = 0 THEN << >> ELSE << submitted[i] >>)
             \o ClassifyUpdated(existing, submitted, k + 1)

\* if !found { deleted = append(deleted, p) }
ClassifyDeleted(existing, submitted) ==
    SelectSeq(existing, LAMBDA e : FirstWithID(submitted, e.ID) = 0)

\* Added parameter are the one present in new batch but not in db
ClassifyAdded(existing, submitted) ==
    SelectSeq(submitted, LAMBDA n : FirstWithID(existing, n.ID) = 0)

\* The statements the handler runs on tx, in order, up to its commit.
Statements(add, upd, del) ==
    [i \in DOMAIN add |-> [op |-> "InsertParameterInPipeline", p |-> add[i]]]
    \o [i \in DOMAIN upd |-> [op |-> "UpdateParameterInPipeline", p |-> upd[i]]]
    \o [i \in DOMAIN del |-> [op |-> "DeleteParameterFromPipeline", p |-> del[i]]]
    \o << [op |-> "UpdateApplication", p |-> Parameter(0, 0, "")],
          [op |-> "UpdatePipelineLastModified", p |-> Parameter(0, 0, "")],
          [op |-> "Commit", p |-> Parameter(0, 0, "")] >>

\* The handler from its classification on: the statements run until one fails
\* (failAt, 0 when none does), then WriteError, or WriteJSON of the added
\* followed by the updated parameters.
UpdateParameters ==
    /\ called = "updateParameters"
    /\ response = NoResponse
    /\ LET del == ClassifyDeleted(pipParameter, pipParams)
           upd == ClassifyUpdated(pipParameter, pipParams, 1)
           add == ClassifyAdded(pipParameter, pipParams)
           stmts == Statements(add, upd, del)
       IN  /\ deleted' = del
           /\ updated' = upd
           /\ added' = add
           /\ \E failAt \in 0..Len(stmts) :
                IF failAt = 0
                  THEN /\ issued' = stmts
                       /\ response' = [kind |-> "json", body |-> add \o upd]
                  ELSE /\ issued' = SubSeq(stmts, 1, failAt)
                       /\ response' = [kind |-> "error", body |-> << >>]
    /\ UNCHANGED << pipParameter, pipParams, applyFailed, appNameValid, params,
                    applyResult, called >>
    /\ UNCHANGED << vars, hvars >>

\* ---------------------------------------------------- templateextension.Apply

\* A template parameter: whether its type is sdk.RepositoryVariable, whether
\* its value splits in two at "##", and what the lookups of the repositories
\* manager give when they are reached.
TemplateParam(repository, fromManager, lookup) ==
    [repository |-> repository, fromManager |-> fromManager, lookup |-> lookup]

TemplateParams ==
    UNION { [1..k -> { TemplateParam(r, m, l) :
                         r \in BOOLEAN, m \in BOOLEAN,
                         l \in {"ok", "loadErr", "clientErr", "repoErr"} }] :
            k \in 0..MaxTemplateParams }

\* Check repo parameter: the loop over params from place k on, err being the
\* variable that templ.Apply assigned; repositoriesmanager.LoadByName assigns
\* it again.
RECURSIVE CheckRepoParameters(_, _, _)
CheckRepoParameters(ps, k, err) ==
    IF k > Len(ps) THEN [app |-> "app", err |-> err]
    ELSE IF ps[k].repository /\ ps[k].fromManager
      THEN IF ps[k].lookup # "ok"
             THEN [app |-> "nil", err |-> ps[k].lookup]
             ELSE CheckRepoParameters(ps, k + 1, "nil")
      ELSE CheckRepoParameters(ps, k + 1, err)

\* Apply(db, templ, proj, params, appName)
Apply(nameValid, failed, ps) ==
    IF ~nameValid
      THEN [app |-> "nil", err |-> "ErrInvalidApplicationPattern"]
      ELSE CheckRepoParameters(ps, 1, IF failed THEN "applyErr" ELSE "nil")

\* One call of Apply.
ApplyTemplate ==
    /\ called = "apply"
    /\ applyResult = NoResult
    /\ applyResult' = Apply(appNameValid, applyFailed, params)
    /\ UNCHANGED << pipParameter, pipParams, deleted, updated, added, issued, response,
                    applyFailed, appNameValid, params, called >>
    /\ UNCHANGED << vars, hvars >>

\* One of the two calls is made, on any of its inputs.
FunctionInit ==
    /\ NoMigration
    /\ NoRequest
    /\ deleted = << >>
    /\ updated = << >>
    /\ added = << >>
    /\ issued = << >>
    /\ response = NoResponse
    /\ applyResult = NoResult
    /\ \/ /\ called = "updateParameters"
          /\ pipParameter \in ExistingParameters
          /\ pipParams \in SubmittedParameters
          /\ applyFailed = FALSE
          /\ appNameValid = FALSE
          /\ params = << >>
       \/ /\ called = "apply"
          /\ pipParameter = << >>
          /\ pipParams = << >>
          /\ applyFailed \in BOOLEAN
          /\ appNameValid \in BOOLEAN
          /\ params \in TemplateParams

FunctionNext ==
    \/ UpdateParameters
    \/ ApplyTemplate

FunctionSpec == FunctionInit /\ [][FunctionNext]_<< vars, hvars, fvars >>

\* ------------------------------------------------------------ properties

Aborted == {"panic", "crashed"}

Data(h) == pipeline_history_old[h].data

RowsOf(r, h) == { i \in DOMAIN pipeline_build :
                    pipeline_build[i].by = r /\ pipeline_build[i].hid = h }

RowsBy(r) == { i \in DOMAIN pipeline_build : pipeline_build[i].by = r }

LoggedCritical(r, h) == \E e \in logs[r] : e.sev = "critical" /\ e.id = h

\* The run returned nil and met no failure: each of its candidates was committed.
Clean(p) ==
    /\ pc[p] = "returned"
    /\ ret[p] = "nil"
    /\ \A e \in logs[p] : e.sev # "critical"

\* The candidates of the group of record h, as the run r lists them.
Siblings(h) == QuerySelectByCriteria(pipeline_history_old, GroupOf(pipeline_history_old[h]))

\* C1: under every interleaving of the runs, no build id is inserted twice: the
\* target table never holds two rows with the same id.
C1_NoDuplicateBuildId ==
    \A i, j \in DOMAIN pipeline_build :
        (i # j) => (pipeline_build[i].id # pipeline_build[j].id)

\* C1 witness: two runs reached the same candidate; one inserted its row, the
\* other met the lock or the row.
C1_Witness ==
    \E p, q \in Runs : \E h \in Hids :
        /\ p # q
        /\ RowsOf(p, h) # {}
        /\ outcome[q][h] \in {"exists", "contended"}

\* C2: a run that begins when every other run has ended inserts no row for an
\* id the target table already held, and inserts no row at all when a run before
\* it completed (returned nil with every candidate committed).
C2_RerunInsertsNothing ==
    \A q \in Runs :
        (alone[q] /\ pc[q] \notin {"idle", "off"}) =>
            /\ \A i \in RowsBy(q) : pipeline_build[i].id \notin idsAtStart[q]
            /\ (\E p \in Runs \ {q} : Clean(p)) => (RowsBy(q) = {})

\* C2 witness: a second run, begun after a completed first run that inserted
\* rows, reached a candidate and found its row.
C2_Witness ==
    \E p, q \in Runs : \E h \in Hids :
        /\ p # q
        /\ alone[q]
        /\ Clean(p)
        /\ RowsOf(p, h) # {}
        /\ outcome[q][h] = "exists"
        /\ RowsBy(q) = {}

\* C3: once a candidate's transaction is rolled back, because the insert or the
\* commit failed, the target table holds no row of that attempt.
C3_RollbackLeavesNoRow ==
    \A r \in Runs : \A h \in Hids :
        (outcome[r][h] \in {"insertErr", "commitErr"}) => (RowsOf(r, h) = {})

\* C4: a candidate whose payload is not valid JSON leaves no row, its
\* transaction is rolled back, and the run goes on: when the run has ended,
\* every other candidate of the group has been attempted.
C4_MalformedCandidateIsolated ==
    \A r \in Runs : \A h \in Hids :
        (outcome[r][h] = "decodeErr") =>
            /\ \A i \in DOMAIN pipeline_build : pipeline_build[i].hid # h
            /\ ~txOpen[r]
            /\ lock[h] # r
            /\ pc[r] \notin Aborted
            /\ (pc[r] \in Ended) =>
                 \A k \in DOMAIN Siblings(h) : outcome[r][Siblings(h)[k]] # "none"

\* C5: a candidate whose build id already has a target row is a no-op success:
\* no reconstruction, no write, the transaction rolled back, nothing logged as
\* a failure, and the run goes on.
C5_ExistingIsNoOpSuccess ==
    \A r \in Runs : \A h \in Hids :
        (outcome[r][h] = "exists") =>
            /\ <<"Reconstruct", h>> \notin calls[r]
            /\ <<"Write", h>> \notin calls[r]
            /\ ~txOpen[r]
            /\ lock[h] # r
            /\ ~LoggedCritical(r, h)
            /\ pc[r] \notin Aborted

\* C6: every step leaves each existing row of the target table in place and
\* unchanged: the table only grows.
C6_TargetRowsNeverChange ==
    [][ /\ Len(pipeline_build') >= Len(pipeline_build)
        /\ \A i \in DOMAIN pipeline_build : pipeline_build'[i] = pipeline_build[i] ]_vars

\* C6 witness: a row that existed before any run is still there after a run
\* inserted rows and returned.
C6_Witness ==
    /\ Len(pipeline_build) >= 2
    /\ pipeline_build[1].by = NoRun
    /\ \E r \in Runs : pc[r] = "returned" /\ RowsBy(r) # {}

\* C7 as stated: for a build whose target row exists when the run begins, the
\* run invokes none of Decode, Reconstruct and Write on its record.
C7_NoDecodeForExisting ==
    \A r \in Runs : \A h \in Hids :
        (h \in idsAtStart[r]) =>
            /\ <<"Decode", h>> \notin calls[r]
            /\ <<"Reconstruct", h>> \notin calls[r]
            /\ <<"Write", h>> \notin calls[r]

\* C7 as amended: the payload is decoded before the existence check, which is
\* made on the decoded id; when that id has a target row at the run's start,
\* Reconstruct and Write are not invoked on the record.
C7_NoRebuildForExisting ==
    \A r \in Runs : \A h \in Hids :
        /\ (<<"Exists", h>> \in calls[r]) => (<<"Decode", h>> \in calls[r])
        /\ (Data(h).wellformed /\ Data(h).id \in idsAtStart[r]) =>
              /\ <<"Reconstruct", h>> \notin calls[r]
              /\ <<"Write", h>> \notin calls[r]

\* C7 witness: the record of a build that had its target row before the run
\* was decoded and its existence check made.
C7_Witness ==
    \E r \in Runs : \E h \in Hids :
        /\ Data(h).wellformed
        /\ Data(h).id \in idsAtStart[r]
        /\ <<"Decode", h>> \in calls[r]
        /\ <<"Exists", h>> \in calls[r]
        /\ outcome[r][h] = "exists"

\* C8: for every group, the candidates the run lists are the records of that
\* group in descending version order, cut to Limit.
C8_CandidatesAreTopOfGroup ==
    \A r \in Runs :
        (pc[r] \in {"rowsLoop", "getPB", "count", "insert", "commit"}) =>
            cands[r] = FirstN(OrderByVersionDesc(pipeline_history_old,
                                { h \in Hids : GroupOf(pipeline_history_old[h])
                                                 = groups[r][gi[r]] }),
                              Limit)

\* C9: a candidate whose row lock is held by another transaction is skipped
\* with its transaction rolled back, and the run goes on to the remaining
\* candidates and groups.
C9_ContendedCandidateSkipped ==
    \A r \in Runs : \A h \in Hids :
        (outcome[r][h] = "contended") =>
            /\ ~txOpen[r]
            /\ pc[r] \notin Aborted

\* C10: no critical log entry is written for a candidate skipped because its
\* lock is contended.
C10_ContendedNotLoggedCritical ==
    \A r \in Runs : \A h \in Hids :
        (outcome[r][h] = "contended") => ~LoggedCritical(r, h)

\* The outcomes of a candidate that are failures of its migration.
CandidateFailures ==
    {"beginErr", "selectErr", "decodeErr", "countErr", "noStages", "stageNotFound",
     "rebuildPanic", "paramErr", "insertErr", "commitErr"}

\* C11: a run stops early only when the group query fails: no run aborts, and
\* every failure of a candidate, the payloads whose stages, builds or args are
\* absent, null or of an unexpected shape included, is logged critical and the
\* run goes on to the remaining candidates and groups.
C11_OnlyGroupQueryFailureStopsRun ==
    \A r \in Runs :
        /\ pc[r] \notin Aborted
        /\ (pc[r] = "returned" /\ ret[r] # "errDistinct") => (gi[r] = Len(groups[r]))
        /\ \A h \in Hids :
             (outcome[r][h] \in CandidateFailures) => LoggedCritical(r, h)

\* C12: in every Build a run wrote, the Status of each Stage is Fail exactly
\* when one of its Jobs, which are the job entries of the legacy stage entry,
\* has status Fail, and Success otherwise, a Stage without Jobs included.
C12_StageStatusFromJobs ==
    \A i \in DOMAIN pipeline_build :
        (pipeline_build[i].by # NoRun) =>
            \A s \in DOMAIN pipeline_build[i].stages :
                LET st == pipeline_build[i].stages[s]
                    entries == { k \in DOMAIN Data(pipeline_build[i].hid).stages :
                                   Data(pipeline_build[i].hid).stages[k].id = st.ID }
                    failed == \E j \in DOMAIN st.PipelineBuildJobs :
                                  st.PipelineBuildJobs[j].Status = "Fail"
                    failedLegacy ==
                        \E k \in entries :
                            \E j \in DOMAIN Data(pipeline_build[i].hid).stages[k].builds :
                                Data(pipeline_build[i].hid).stages[k].builds[j].status = "Fail"
                IN  /\ st.Status = (IF failed THEN "Fail" ELSE "Success")
                    /\ st.Status = (IF failedLegacy THEN "Fail" ELSE "Success")

\* A run wrote a Build with a failed Stage, a successful Stage with Jobs and
\* a Stage without Jobs.
C12_Witness ==
    \E i \in DOMAIN pipeline_build :
        /\ pipeline_build[i].by # NoRun
        /\ \E a, b, c \in DOMAIN pipeline_build[i].stages :
             LET st == pipeline_build[i].stages
             IN  /\ st[a].Status = "Fail"
                 /\ st[b].Status = "Success" /\ st[b].PipelineBuildJobs # << >>
                 /\ st[c].Status = "Success" /\ st[c].PipelineBuildJobs = << >>

\* C13 as stated: a payload without "stages" key is rebuilt as a Build with an
\* empty stage sequence and goes on to be written to the target table.
C13_NoStagesKeyWrittenEmpty ==
    \A r \in Runs : \A h \in Hids :
        (~Data(h).hasStages /\ <<"Reconstruct", h>> \in calls[r]) =>
            \/ pc[r] = "insert" /\ cur[r] = h
            \/ <<"Write", h>> \in calls[r]

\* C13: a payload without "stages" key is not rebuilt: getPipelineBuild logs a
\* critical entry and returns no build, and no row is written for the record.
C13_NoStagesKeyWritesNothing ==
    \A r \in Runs : \A h \in Hids :
        (Data(h).wellformed /\ ~Data(h).hasStages) =>
            /\ RowsOf(r, h) = {}
            /\ <<"Write", h>> \notin calls[r]
            /\ (<<"Reconstruct", h>> \in calls[r]) =>
                  (outcome[r][h] = "noStages" /\ Critical(927, h) \in logs[r])

\* A run reached the rebuilding of a payload without "stages" key.
C13_Witness ==
    \E r \in Runs : \E h \in Hids :
        /\ ~Data(h).hasStages
        /\ <<"Reconstruct", h>> \in calls[r]
        /\ outcome[r][h] = "noStages"

\* C14: a stage entry whose id is the id of no Stage of the skeleton fails the
\* rebuilding of this record only: no row is written, the transaction is
\* rolled back and the run goes on.
C14_UnknownStageFailsRecordOnly ==
    \A r \in Runs : \A h \in Hids :
        (outcome[r][h] = "stageNotFound") =>
            /\ RowsOf(r, h) = {}
            /\ ~(txOpen[r] /\ cur[r] = h)
            /\ lock[h] # r
            /\ pc[r] \notin Aborted

\* C15: a payload that is valid JSON without the identity field fails to
\* decode: no run writes a row for it, and no row of build id zero is written.
C15_NoIdNeverWritten ==
    /\ \A i \in DOMAIN pipeline_build :
         (pipeline_build[i].by # NoRun) => (pipeline_build[i].id # 0)
    /\ \A r \in Runs : \A h \in Hids :
         (Data(h).wellformed /\ Data(h).id = 0) =>
            (RowsOf(r, h) = {} /\ <<"Write", h>> \notin calls[r])

\* C16: a failed insert is logged critical, the transaction is rolled back
\* (the row lock is released), the attempt leaves no row in the target table,
\* and the run goes on to the next row of its loop.
C16_InsertFailureRollsBack ==
    [][\A r \in Runs :
         /\ (pc[r] = "insert" /\ outcome'[r][cur[r]] = "insertErr") =>
               /\ pc'[r] = "rowsLoop"
               /\ ret'[r] = "none"
               /\ ~txOpen'[r]
               /\ \A h \in Hids : lock'[h] # r
               /\ Critical(871, cur[r]) \in logs'[r]
               /\ pipeline_build' = pipeline_build
         /\ \A h \in Hids :
              (outcome'[r][h] = "insertErr") =>
                  \A i \in DOMAIN pipeline_build' :
                      ~(pipeline_build'[i].by = r /\ pipeline_build'[i].hid = h)
      ]_vars

\* The insert of a candidate failed and the run went on to migrate a later
\* candidate of the same group.
C16_Witness ==
    \E r \in Runs : \E a, b \in DOMAIN cands[r] :
        /\ a < b
        /\ outcome[r][cands[r][a]] = "insertErr"
        /\ outcome[r][cands[r][b]] = "migrated"
        /\ RowsOf(r, cands[r][a]) = {}

\* C17: when the group query fails the run returns that error, having listed
\* no group, attempted no candidate and inserted no row.
C17_GroupQueryFailureAborts ==
    \A r \in Runs :
        (Critical(813, 0) \in logs[r]) =>
            /\ pc[r] = "returned"
            /\ ret[r] = "errDistinct"
            /\ RowsBy(r) = {}
            /\ calls[r] = {}
            /\ \A h \in Hids : outcome[r][h] = "none"

\* The group query of a run failed, after another run had migrated a record.
C17_Witness ==
    \E r \in Runs :
        /\ ret[r] = "errDistinct"
        /\ \E q \in Runs \ {r} : RowsBy(q) # {}

\* C18: a failed candidate query skips its group only: the step leaves the run
\* in its loop over the groups with nothing written and no transaction open,
\* and when the run returns it has gone through every group and returns nil.
C18_CandidateQueryFailureSkipsGroup ==
    [][\A r \in Runs :
         /\ (Critical(835, 0) \notin logs[r] /\ Critical(835, 0) \in logs'[r]) =>
               /\ pc'[r] = "rows"
               /\ ret'[r] = "none"
               /\ gi'[r] = gi[r] + 1
               /\ ~txOpen'[r]
               /\ pipeline_build' = pipeline_build
         /\ (Critical(835, 0) \in logs'[r] /\ pc'[r] = "returned") =>
               /\ ret'[r] = "nil"
               /\ gi'[r] = Len(groups'[r])
      ]_vars

\* The candidate query of the first group failed; the run migrated the record
\* of the last group and returned nil.
C18_Witness ==
    \E r \in Runs : \E h \in Hids :
        /\ Critical(835, 0) \in logs[r]
        /\ pc[r] = "returned" /\ ret[r] = "nil"
        /\ pipeline_history_old[h].application_id = 2
        /\ outcome[r][h] = "migrated"
        /\ outcome[r][1] = "none"
        /\ \A q \in Runs \ {r} : outcome[q][1] = "none"

\* C19: no step of any run changes the legacy table.
C19_LegacyNeverChanges ==
    [][pipeline_history_old' = pipeline_history_old]_vars

\* A run migrated a record while another run met the lock of a record.
C19_Witness ==
    \E r, q \in Runs : \E h, g \in Hids :
        /\ r # q
        /\ outcome[r][h] = "migrated"
        /\ outcome[q][g] = "contended"

\* C20: the transaction of a candidate is committed or rolled back before the
\* next candidate begins: a run holds at most one row lock, and a run that is
\* between candidates or has ended holds no row lock and no open transaction.
C20_TransactionEndsWithCandidate ==
    \A r \in Runs :
        /\ Cardinality({ h \in Hids : lock[h] = r }) <= 1
        /\ (pc[r] \in {"idle", "rows", "rowsLoop"} \cup Ended) =>
              (~txOpen[r] /\ \A h \in Hids : lock[h] # r)

\* C21: the row inserted for a candidate has the id of the legacy record that
\* was selected and locked for it: lock, existence check and insert are on
\* one key.
C21_RowIdIsLockedRecordId ==
    \A i \in DOMAIN pipeline_build :
        (pipeline_build[i].by # NoRun) => (pipeline_build[i].id = pipeline_build[i].hid)

\* C22: the records of a group whose branch is NULL are candidates like those
\* of any other group: when a run is in the loop over the candidates of such a
\* group its candidates are the records of the group, and once a run returned
\* nil without any failure every such record has its row in the target table.
C22_NullBranchGroupMigrated ==
    \A r \in Runs :
        /\ (pc[r] = "rowsLoop" /\ ~groups[r][gi[r]].vcs_changes_branch.Valid) =>
              { cands[r][k] : k \in DOMAIN cands[r] } =
                 { h \in Hids : GroupOf(pipeline_history_old[h]) = groups[r][gi[r]] }
        /\ Clean(r) =>
              \A h \in Hids :
                  (~pipeline_history_old[h].vcs_changes_branch.Valid) =>
                      \E i \in DOMAIN pipeline_build : pipeline_build[i].hid = h

\* The ids of the stages of a written row, in their order.
StageIds(row) == [s \in DOMAIN row.stages |-> row.stages[s].ID]

\* C23: in every Build a run wrote, the stages are those of the legacy payload
\* in the payload's order: none reordered, dropped or duplicated.
C23_StageOrderPreserved ==
    \A i \in DOMAIN pipeline_build :
        (pipeline_build[i].by # NoRun) =>
            LET data == Data(pipeline_build[i].hid)
            IN  /\ StageIds(pipeline_build[i]) =
                      (IF data.stagesNull THEN << >> ELSE data.skeleton)
                /\ ~data.stagesNull =>
                      StageIds(pipeline_build[i]) =
                          [k \in DOMAIN data.stages |-> data.stages[k].id]

\* A run wrote a Build of several stages.
C23_Witness ==
    \E i \in DOMAIN pipeline_build :
        /\ pipeline_build[i].by # NoRun
        /\ Len(pipeline_build[i].stages) >= 3
        /\ StageIds(pipeline_build[i]) = <<1, 2, 3>>

\* C24: in every Build a run wrote, the Stage of each legacy stage entry holds
\* exactly the jobs of the entry in the entry's order, each with the id,
\* action name, pipeline-action ref, status and parameter (name, value) list
\* of its job entry, and enabled.
C24_JobsAreLegacyJobs ==
    \A i \in DOMAIN pipeline_build :
        (pipeline_build[i].by # NoRun) =>
            LET data == Data(pipeline_build[i].hid)
                st == pipeline_build[i].stages
            IN  \A k \in DOMAIN data.stages :
                    \E s \in DOMAIN st :
                        /\ st[s].ID = data.stages[k].id
                        /\ Len(st[s].PipelineBuildJobs) = Len(data.stages[k].builds)
                        /\ \A j \in DOMAIN data.stages[k].builds :
                             LET job == st[s].PipelineBuildJobs[j]
                                 e == data.stages[k].builds[j]
                             IN  /\ job.ID = e.id
                                 /\ job.ActionName = e.action_name
                                 /\ job.PipelineActionID = e.pipeline_action_id
                                 /\ job.Status = e.status
                                 /\ job.Enabled
                                 /\ Len(job.Parameters) = Len(e.args)
                                 /\ \A a \in DOMAIN e.args :
                                      /\ job.Parameters[a].Name = e.args[a].name
                                      /\ job.Parameters[a].Value = e.args[a].value

\* A run wrote a Build with a Stage of two Jobs with parameters.
C24_Witness ==
    \E i \in DOMAIN pipeline_build :
        /\ pipeline_build[i].by # NoRun
        /\ \E s \in DOMAIN pipeline_build[i].stages :
             /\ Len(pipeline_build[i].stages[s].PipelineBuildJobs) = 2
             /\ pipeline_build[i].stages[s].PipelineBuildJobs[1].Parameters # << >>
             /\ pipeline_build[i].stages[s].PipelineBuildJobs[2].ID = 3

\* C25: the start and done of every Job of a written Build are the start and
\* done of its legacy job entry.
C25_TimestampsAreLegacy ==
    \A i \in DOMAIN pipeline_build :
        (pipeline_build[i].by # NoRun) =>
            LET data == Data(pipeline_build[i].hid)
                st == pipeline_build[i].stages
            IN  \A k \in DOMAIN data.stages : \A s \in DOMAIN st :
                    (st[s].ID = data.stages[k].id) =>
                        \A j \in DOMAIN st[s].PipelineBuildJobs :
                            /\ st[s].PipelineBuildJobs[j].Start = data.stages[k].builds[j].start
                            /\ st[s].PipelineBuildJobs[j].Done = data.stages[k].builds[j].done

\* C26: a payload whose "stages" is null is rebuilt as a Build with an empty
\* stage sequence: the run goes on to its insert with no failure of the
\* rebuilding, and every row written for the record has no stage.
C26_NullStagesWrittenEmpty ==
    \A r \in Runs : \A h \in Hids :
        (Data(h).wellformed /\ Data(h).stagesNull) =>
            /\ (<<"Reconstruct", h>> \in calls[r]) =>
                  /\ outcome[r][h] \notin {"noStages", "stageNotFound", "rebuildPanic", "paramErr"}
                  /\ ~LoggedCritical(r, h) \/ outcome[r][h] \in {"insertErr", "commitErr"}
                  /\ \/ pc[r] = "insert" /\ cur[r] = h /\ build[r].Stages = << >>
                     \/ <<"Write", h>> \in calls[r]
            /\ \A i \in RowsOf(r, h) : pipeline_build[i].stages = << >>

\* A run migrated a record whose "stages" is null: its row is in the table.
C26_Witness ==
    \E r \in Runs : \E h \in Hids :
        /\ Data(h).stagesNull
        /\ outcome[r][h] = "migrated"
        /\ RowsOf(r, h) # {}

\* C27: a payload without "stages" key is a no-op skip: no row is written for
\* the record, no end notice is logged for it, its transaction is closed and
\* the run goes on to the next candidate.
C27_NoStagesKeyIsSkipped ==
    \A r \in Runs : \A h \in Hids :
        (outcome[r][h] = "noStages") =>
            /\ RowsOf(r, h) = {}
            /\ Notice(882, h) \notin logs[r]
            /\ pc[r] \notin Aborted
            /\ ~(txOpen[r] /\ cur[r] = h)

\* C28: the end notice of an id is logged only after the commit of the
\* candidate: the target table then holds the row of that id, and a candidate
\* that was skipped or failed has no end notice.
C28_EndNoticeAfterCommit ==
    \A r \in Runs : \A h \in Hids :
        (Notice(882, h) \in logs[r]) =>
            /\ outcome[r][h] = "migrated"
            /\ \E i \in DOMAIN pipeline_build : pipeline_build[i].id = h

\* The handler's own statements of request q that the database holds.
Kept(q) == { e[2] : e \in { e \in applied : e[1] = q } }

\* The request was answered with the error of a statement of its transaction
\* or of its commit.
FailedInTransaction(q) ==
    resp[q] = << "error" >> /\ failedAt[q] \notin {"none", "Begin", "Load"}

\* C29: addPollerHandler inserts the poller and updates the application's
\* last-modified date in one transaction: when the update or the commit
\* fails, no poller row of the request remains.
C29_AddPollerAtomic ==
    \A q \in Requests :
        (hkind[q] = "addPoller") =>
            /\ (failedAt[q] \in {"UpdateLastModified", "Commit"}) =>
                  ("InsertPoller" \notin Kept(q))
            /\ (hpc[q] = "done") =>
                  (("InsertPoller" \in Kept(q)) <=> ("UpdateLastModified" \in Kept(q)))

\* C30: deleteVariableFromEnvironmentHandler and
\* updateVariableInEnvironmentHandler apply the audit and the change of the
\* variable in one transaction: when a later statement or the commit fails,
\* the variables of the environment are unchanged and no audit is kept.
C30_EnvironmentVariableAtomic ==
    \A q \in Requests :
        (hkind[q] \in {"deleteVariable", "updateVariable"} /\ FailedInTransaction(q)) =>
            Kept(q) \cap {"CreateAudit", "DeleteVariable", "UpdateVariable"} = {}

\* The ids of the parameters of a list.
IdsOf(list) == { list[i].ID : i \in DOMAIN list }

\* The handler classified the parameters of its request.
Classified == called = "updateParameters" /\ response # NoResponse

\* C31: every submitted parameter is inserted or applied as an update: the
\* added and the updated parameters are the submitted ones.
C31_EverySubmittedApplied ==
    Classified =>
        /\ Len(added) + Len(updated) = Len(pipParams)
        /\ \A i \in DOMAIN pipParams :
             \/ \E a \in DOMAIN added : added[a] = pipParams[i]
             \/ \E u \in DOMAIN updated : updated[u] = pipParams[i]

\* C32: however the requests of addParameterInPipelineHandler interleave, the
\* pipeline holds at most one parameter of a name: of two requests for the
\* same new name at most one inserts.
C32_OneParameterPerName ==
    Cardinality(pipeline_parameter) <= 1

\* C33: every handler writes exactly one response for a request it has
\* served, and none after an error response.
C33_OneResponsePerRequest ==
    \A q \in Requests :
        /\ (hpc[q] = "done") => (Len(resp[q]) = 1)
        /\ \A i \in DOMAIN resp[q] : (resp[q][i] = "error") => (i = Len(resp[q]))

\* C34: Apply returns an error whenever templ.Apply failed.
C34_ApplyFailureIsReturned ==
    (called = "apply" /\ applyResult # NoResult /\ appNameValid /\ applyFailed) =>
        applyResult.err # "nil"

====
